---- MODULE Spec2Model ----
(***************************************************************************)
(* RetroLM: the generation loop of chat.c over the attention cache, and    *)
(* the shape discipline of the tensor layer (matrix.c, layers.c,           *)
(* transformer.c).  Tensors are modelled by their shape (rows, columns)    *)
(* and, for index tensors, by their elements; a fatal error raised through *)
(* throw() is a value that every later operation passes on unchanged,      *)
(* which is what terminating the process at the first throw amounts to.    *)
(***************************************************************************)
EXTENDS Integers, Naturals, Sequences, FiniteSets, Bags, TLC

VARIABLES
    \* ---- generate_interactive (chat.c) ----
    pc,          \* position inside generate_interactive
    model,       \* the TransformerParameters (shapes)
    prompt,      \* the prompt bytes
    max_tokens,  \* the token budget
    tokens,      \* tokens[0 .. pos-1]; pos is Len(tokens)
    t,           \* the decode loop counter
    cache,       \* the AttentionCache: [K |-> rows, V |-> rows]
    next_token,  \* the last sampled token
    out,         \* stdout: [buf |-> written, not yet flushed, sink |-> surfaced]
    steps,       \* decode-step forward passes executed so far
    nsampled,    \* calls of sample_from_logits so far
    calls,       \* every transformer_forward call: [phase, n, pos, rows]
    exit_code,   \* the exit status once the process has terminated, else -1
    result,      \* the returned string, as character codes
    \* ---- tensor layer harness ----
    tcall,       \* the tensor call made: its operation, arguments and result
    \* ---- chat session (main) ----
    history,     \* the conversation history buffer, as character codes
    hcall,       \* the last update_history call: arguments and return value
    stdin,       \* the characters not yet read from standard input
    typed,       \* the lines the user typed, in order
    input_buf,   \* the input buffer of main
    rpc,         \* position inside main's loop
    events,      \* history updates and generation calls made so far
    status       \* the exit status of main once it has ended, else -1

gen_vars == <<pc, model, prompt, max_tokens, tokens, t, cache, next_token,
              out, steps, nsampled, calls, exit_code, result>>
tensor_vars == <<tcall>>
repl_vars == <<history, hcall, stdin, typed, input_buf, rpc, events, status>>
vars == <<gen_vars, tensor_vars, repl_vars>>

(***************************************************************************)
(* Bounds of the model.                                                    *)
(***************************************************************************)
MaxPrompt == 2      \* longest prompt
MaxTokens == 3      \* largest token budget
MaxSeq == 5         \* largest max_seq_len (rows of pos_embed)
MaxDim == 3         \* largest row or column count of an operand
MaxVocab == 3       \* longest logits row given to sample_from_logits
RAND_MAX == 4       \* largest value rand() returns
MAX_INPUT == 6      \* size of main's input buffer
MaxLines == 2       \* most lines typed in a session
MaxKernel == 9      \* largest dimension given to a kernel of matrix_ops.c
MaxOuter == 2       \* largest r1 and c2 given to _matmul

\* unsigned int arithmetic wraps modulo 2^w.  TLC's integers are 32-bit
\* signed, so the model's word is 30 bits wide: UINT_MAX is UIntModulus - 1.
UIntModulus == 2^30
U32(x) == x % UIntModulus
UINT_MAX == UIntModulus - 1

(***************************************************************************)
(* Values of the tensor layer.                                             *)
(***************************************************************************)
Mat(r, c) == [ok |-> TRUE, r |-> r, c |-> c, err |-> "none", at |-> ""]
Throw(e) == [ok |-> FALSE, r |-> 0, c |-> 0, err |-> e, at |-> ""]
UIntMat(r, data) == [r |-> r, c |-> Len(data), data |-> data]

\* The first of two operands that already carries a fatal error.
FirstError(m1, m2) == IF ~m1.ok THEN m1 ELSE m2
\* Names the step of the forward pass in which a fresh error was raised.
Stage(m, s) == IF m.ok \/ m.at # "" THEN m ELSE [m EXCEPT !.at = s]

mat_new(r, c) ==
    IF r = 0 THEN Throw("InvalidInput")
    ELSE IF c = 0 THEN Throw("InvalidInput")
    ELSE Mat(r, c)

indices_new(n) == UIntMat(1, [i \in 1..n |-> i - 1])

\* mat_at(m, i, j): the error it raises, or the offset into m.data of the
\* element whose address it returns.
mat_at(m, i, j) ==
    LET index == U32(i * m.c + j)
    IN IF index >= U32(m.r * m.c)
       THEN [err |-> "IndexError", offset |-> -1]
       ELSE [err |-> "none", offset |-> index]

mat_mul(m1, m2) ==
    IF ~(m1.ok /\ m2.ok) THEN FirstError(m1, m2)
    ELSE IF m1.c # m2.r THEN Throw("InvalidInput")
    ELSE mat_new(m1.r, m2.c)

mat_div(m1, m2) ==
    IF ~(m1.ok /\ m2.ok) THEN FirstError(m1, m2)
    ELSE IF m2.r = 1 /\ m1.c # m2.c THEN Throw("InvalidInput")
    ELSE IF m2.c = 1 /\ m1.r # m2.r THEN Throw("InvalidInput")
    ELSE IF m2.r # 1 /\ m1.r # m2.r THEN Throw("InvalidInput")
    ELSE IF m2.c # 1 /\ m1.c # m2.c THEN Throw("InvalidInput")
    ELSE mat_new(m1.r, m1.c)

mat_add(m1, m2) ==
    IF ~(m1.ok /\ m2.ok) THEN FirstError(m1, m2)
    ELSE IF m2.r = 1 /\ m1.c # m2.c THEN Throw("InvalidInput")
    ELSE IF m2.c = 1 /\ m1.r # m2.r THEN Throw("InvalidInput")
    ELSE IF m2.r # 1 /\ m1.r # m2.r THEN Throw("InvalidInput")
    ELSE IF m2.c # 1 /\ m1.c # m2.c THEN Throw("InvalidInput")
    ELSE mat_new(m1.r, m1.c)

mat_sub(m1, m2) ==
    IF ~(m1.ok /\ m2.ok) THEN FirstError(m1, m2)
    ELSE IF m2.r = 1 /\ m1.c # m2.c THEN Throw("InvalidInput")
    ELSE IF m2.c = 1 /\ m1.r # m2.r THEN Throw("InvalidInput")
    ELSE IF m2.r # 1 /\ m1.r # m2.r THEN Throw("InvalidInput")
    ELSE IF m2.c # 1 /\ m1.c # m2.c THEN Throw("InvalidInput")
    ELSE mat_new(m1.r, m1.c)

mat_exp(m) == IF ~m.ok THEN m ELSE mat_new(m.r, m.c)

mat_sum(m, dim) ==
    IF ~m.ok THEN m
    ELSE IF dim > 1 THEN Throw("InvalidInput")
    ELSE IF dim = 0 THEN mat_new(1, m.c)
    ELSE mat_new(m.r, 1)

mat_max(m, dim) ==
    IF ~m.ok THEN m
    ELSE IF dim > 1 THEN Throw("InvalidInput")
    ELSE IF dim = 0 THEN mat_new(1, m.c)
    ELSE mat_new(m.r, 1)

mat_transpose(m) == IF ~m.ok THEN m ELSE mat_new(m.c, m.r)

mat_copy(m) == IF ~m.ok THEN m ELSE mat_new(m.r, m.c)

mat_clamp_min(m) == mat_copy(m)

mat_rowselect_off_by_one(m, indices) ==
    IF ~m.ok THEN m
    ELSE IF indices.r # 1 THEN Throw("InvalidInput")
    ELSE IF indices.c > m.r THEN Throw("InvalidInput")
    ELSE IF \E i \in 1..indices.c : indices.data[i] > m.r
         THEN Throw("InvalidInput")
    ELSE mat_new(indices.c, m.c)

mat_rowselect(m, indices) ==
    IF ~m.ok THEN m
    ELSE IF indices.r # 1 THEN Throw("InvalidInput")
    ELSE IF indices.c > m.r THEN Throw("InvalidInput")
    ELSE IF \E i \in 1..indices.c : indices.data[i] >= m.r
         THEN Throw("InvalidInput")
    ELSE mat_new(indices.c, m.c)

(***************************************************************************)
(* activations.c                                                           *)
(***************************************************************************)
relu(m) == mat_clamp_min(m)

softmax(m) ==
    LET max_vals == mat_max(m, 1)
        m_shifted == mat_sub(m, max_vals)
        num == mat_exp(m_shifted)
        den == mat_sum(num, 1)
    IN mat_div(num, den)

(***************************************************************************)
(* layers.c                                                                *)
(***************************************************************************)
linear_new(in_features, out_features) ==
    [weights |-> mat_new(out_features, in_features),
     bias |-> mat_new(1, out_features)]

linear_forward(x, p) ==
    LET weights_t == mat_transpose(p.weights)
        product == mat_mul(x, weights_t)
    IN mat_add(product, p.bias)

\* mat_maskdiag(m, value) on a matrix of r rows and c columns: the set of
\* cells <<i, j>> (0-based) it overwrites with value.
mat_maskdiag_with_diagonal(r, c) ==
    {cell \in (0..(r - 1)) \X (0..(c - 1)) : cell[2] >= cell[1]}

mat_maskdiag(r, c) ==
    {cell \in (0..(r - 1)) \X (0..(c - 1)) : cell[2] > cell[1]}

attention_new(embed_dim) ==
    [Wq |-> linear_new(embed_dim, embed_dim),
     Wk |-> linear_new(embed_dim, embed_dim),
     Wv |-> linear_new(embed_dim, embed_dim),
     Wo |-> linear_new(embed_dim, embed_dim)]

\* The cache-less attention block of layers.c: the scores are [n, n].
\* mat_scale and mat_maskdiag work in place and keep the shape.
attention_forward(x, p) ==
    LET Q == linear_forward(x, p.Wq)
        K == linear_forward(x, p.Wk)
        V == linear_forward(x, p.Wv)
        K_t == mat_transpose(K)
        scores == mat_mul(Q, K_t)
        weights == softmax(scores)
        attention_out == mat_mul(weights, V)
        residual == linear_forward(attention_out, p.Wo)
    IN mat_add(x, residual)

\* The cells of the score matrix that attention_forward masks before the
\* softmax, for an input of n rows: the scores are [n, n].
attention_masked(x) == mat_maskdiag(x.r, x.r)

embeddings_new(vocab_size, embed_dim) ==
    [weight_matrix |-> mat_new(vocab_size, embed_dim)]

embeddings_forward(indices, p) == mat_rowselect(p.weight_matrix, indices)

(***************************************************************************)
(* transformer.c                                                           *)
(***************************************************************************)
transformer_new(seq_len, embeded_dim, ff_dim, vocab_size) ==
    [token_embed |-> embeddings_new(vocab_size, embeded_dim),
     pos_embed |-> mat_new(seq_len, embeded_dim),
     attn |-> attention_new(embeded_dim),
     W1 |-> linear_new(embeded_dim, ff_dim),
     W2 |-> linear_new(ff_dim, embeded_dim),
     lm_head |-> linear_new(embeded_dim, vocab_size)]

batch_rejected_above_two(x) == x.r > 2

\* transformer.c line 47: only a single-row index tensor is accepted.
batch_rejected(x) == x.r > 1

\* Lines 61-66: the two operands of the residual mat_add, each with the
\* tensor it is.  X is reassigned to the output of W1 on line 62, so that is
\* what line 66 adds FF to.
residual_operands(X_attention, p) ==
    LET X == linear_forward(X_attention, p.W1)
        FF == linear_forward(relu(X), p.W2)
    IN [left |-> [tensor |-> "W1_output", m |-> X],
        right |-> [tensor |-> "W2_output", m |-> FF]]

\* The heap after a list of statements "var = allocate(name)" followed by
\* mat_free of the listed variables: what each variable holds, which
\* allocations are live, which were freed twice.
RECURSIVE heap_assign(_, _, _)
heap_assign(stmts, i, heap) ==
    IF i > Len(stmts) THEN heap
    ELSE heap_assign(stmts, i + 1,
            [held |-> [v \in DOMAIN heap.held \cup {stmts[i].var} |->
                          IF v = stmts[i].var THEN stmts[i].alloc ELSE heap.held[v]],
             live |-> heap.live \cup {stmts[i].alloc},
             twice |-> heap.twice])

RECURSIVE heap_free(_, _, _)
heap_free(frees, i, heap) ==
    IF i > Len(frees) THEN heap
    ELSE LET a == heap.held[frees[i]]
         IN heap_free(frees, i + 1,
               [held |-> heap.held,
                live |-> heap.live \ {a},
                twice |-> IF a \in heap.live THEN heap.twice
                          ELSE heap.twice \cup {a}])

EmptyHeap == [held |-> <<>>, live |-> {}, twice |-> {}]

\* Lines 52-69 and 71-75 of transformer_forward: its allocations in order,
\* with the variable each is assigned to, and its mat_free calls.
transformer_forward_allocations ==
    <<[var |-> "X", alloc |-> "token_embed"],
      [var |-> "posEmbedIndices", alloc |-> "pos_indices"],
      [var |-> "pS", alloc |-> "pos_rows"],
      [var |-> "X", alloc |-> "add_pos"],
      [var |-> "X", alloc |-> "attention_output"],
      [var |-> "X", alloc |-> "W1_output"],
      [var |-> "FF", alloc |-> "relu_output"],
      [var |-> "FF", alloc |-> "W2_output"],
      [var |-> "X", alloc |-> "residual"],
      [var |-> "logits", alloc |-> "logits"]>>

transformer_forward_frees == <<"X", "posEmbedIndices", "pS", "FF">>

\* Lines 226-261 of attention_forward.
attention_forward_allocations ==
    <<[var |-> "Q", alloc |-> "Q"], [var |-> "K", alloc |-> "K"],
      [var |-> "V", alloc |-> "V"], [var |-> "K_t", alloc |-> "K_t"],
      [var |-> "scores", alloc |-> "scores"],
      [var |-> "weights", alloc |-> "weights"],
      [var |-> "attention_out", alloc |-> "attention_out"],
      [var |-> "residual", alloc |-> "attention_residual"],
      [var |-> "result", alloc |-> "attention_result"]>>

attention_forward_frees ==
    <<"Q", "K", "K_t", "scores", "weights", "V", "attention_out", "residual">>

heap_after(allocations, frees) ==
    heap_free(frees, 1, heap_assign(allocations, 1, EmptyHeap))

\* The forward pass of transformer.c (no cache, positions 0 .. N-1).
transformer_forward(x, p) ==
    IF batch_rejected(x) THEN Stage(Throw("InvalidInput"), "batch")
    ELSE
    LET N == x.c
        X0 == Stage(embeddings_forward(x, p.token_embed), "token_embed")
        posEmbedIndices == indices_new(N)
        pS == Stage(mat_rowselect(p.pos_embed, posEmbedIndices), "pos_embed")
        X1 == Stage(mat_add(X0, pS), "add_pos")
        X2 == Stage(attention_forward(X1, p.attn), "attention")
        ops == residual_operands(X2, p)
        X3 == Stage(ops.left.m, "W1")
        FF1 == Stage(ops.right.m, "W2")
        X4 == Stage(mat_add(X3, FF1), "residual")
    IN Stage(linear_forward(X4, p.lm_head), "lm_head")

(***************************************************************************)
(* The forward pass with an attention cache and a start position: the form *)
(* chat.c and test_transformer.c call.  Its batch check, embedding lookup  *)
(* and row selection are those of transformer.c; the position indices and  *)
(* the cache append follow the design document.                            *)
(***************************************************************************)
attention_cache_new(embed_dim) == [K |-> <<>>, V |-> <<>>]

\* Row indices pos .. pos+N-1 of the positional table, in unsigned 32 bits.
pos_indices(pos, N) == UIntMat(1, [i \in 1..N |-> U32(pos + i - 1)])

\* K_full = vstack(K_cache, K_new): one new row per input row, named by the
\* token and the position it was embedded at.
attention_cache_append(c, x, pos) ==
    [K |-> c.K \o [i \in 1..x.c |-> <<"k", x.data[i], U32(pos + i - 1)>>],
     V |-> c.V \o [i \in 1..x.c |-> <<"v", x.data[i], U32(pos + i - 1)>>]]

\* The cells of the [n, t + n] score matrix masked by the cached attention
\* with that many cached rows: cell <<i, j>> is masked when j > rows + i.
attention_masked_cached(rows, n) ==
    {cell \in (0..(n - 1)) \X (0..(rows + n - 1)) : cell[2] > rows + cell[1]}

transformer_forward_cached(x, p, c, pos) ==
    IF batch_rejected(x)
    THEN [logits |-> Stage(Throw("InvalidInput"), "batch"), cache |-> c]
    ELSE
    LET N == x.c
        X0 == Stage(embeddings_forward(x, p.token_embed), "token_embed")
        pS == Stage(mat_rowselect(p.pos_embed, pos_indices(pos, N)), "pos_embed")
        X1 == Stage(mat_add(X0, pS), "add_pos")
    IN IF ~X1.ok THEN [logits |-> X1, cache |-> c]
       ELSE [logits |-> mat_new(N, p.lm_head.weights.r),
             cache |-> attention_cache_append(c, x, pos)]

(***************************************************************************)
(* sampling.c.  Floats are modelled exactly: a probability is a weight     *)
(* over the sum of weights, expf is a table in thousandths, and the drawn  *)
(* value is the fraction rand() / RAND_MAX.                                *)
(***************************************************************************)
temperature_magnitude(temperature) ==
    IF temperature < 0 THEN 0 - temperature
    ELSE IF temperature = 0 THEN 1 ELSE temperature

temperature_validated(temperature) ==
    IF temperature <= 0 THEN 1 ELSE temperature

RECURSIVE max_logit_from(_, _, _, _)
max_logit_from(logits, vocab_size, i, best) ==
    IF i >= vocab_size THEN best
    ELSE max_logit_from(logits, vocab_size, i + 1,
                        IF logits[i + 1] > best THEN logits[i + 1] ELSE best)

max_logit(logits, vocab_size) == max_logit_from(logits, vocab_size, 1, logits[1])

\* expf(d) for d <= 0, in thousandths; it underflows to 0 far below zero.
expf(d) ==
    CASE d = 0 -> 1000
      [] d = -1 -> 368
      [] d = -2 -> 135
      [] d = -3 -> 50
      [] d = -4 -> 18
      [] OTHER -> 0

\* probs[i] before normalisation, for i = 0 .. vocab_size - 1.
probs_unnormalized(logits, vocab_size, temperature) ==
    [i \in 1..vocab_size |->
        expf((logits[i] - max_logit(logits, vocab_size)) \div temperature)]

RECURSIVE probs_sum(_, _)
probs_sum(probs, n) == IF n = 0 THEN 0 ELSE probs_sum(probs, n - 1) + probs[n]

\* The caller's logits array after the softmax loops, which write to probs.
logits_overwritten(logits, probs) == probs

logits_after_softmax(logits, probs) == logits

\* rand_val < cumsum, with rand_val = rand / RAND_MAX and cumsum = cum / sum.
rand_val_below_or_at(rand, cum, sum) == rand * sum <= cum * RAND_MAX

rand_val_below(rand, cum, sum) == rand * sum < cum * RAND_MAX

\* The walk of the cumulative sum from index i, with the sum before i.
RECURSIVE cumulative_walk(_, _, _, _, _, _)
cumulative_walk(probs, vocab_size, sum, rand, i, cumsum) ==
    IF i >= vocab_size THEN vocab_size - 1
    ELSE IF rand_val_below(rand, cumsum + probs[i + 1], sum) THEN i
    ELSE cumulative_walk(probs, vocab_size, sum, rand, i + 1, cumsum + probs[i + 1])

\* sample_from_logits with the value rand() would return and the outcome of
\* the scratch allocation; prng counts the calls of rand().
sample_from_logits(logits, vocab_size, temperature, rand, malloc_ok) ==
    LET temp == temperature_validated(temperature)
        probs == probs_unnormalized(logits, vocab_size, temp)
        sum == probs_sum(probs, vocab_size)
    IN IF ~malloc_ok
       THEN [result |-> 0, prng |-> 0, drawn |-> FALSE, u |-> <<0, RAND_MAX>>,
             logits |-> logits, err |-> "none"]
       ELSE [result |-> cumulative_walk(probs, vocab_size, sum, rand, 0, 0),
             prng |-> 1, drawn |-> TRUE, u |-> <<rand, RAND_MAX>>,
             logits |-> logits_after_softmax(logits, probs), err |-> "none"]

(***************************************************************************)
(* chat.c: update_history.  A string is the sequence of its character      *)
(* codes; a char pointer is a record that is either NULL or such a string. *)
(***************************************************************************)
CONTEXT_WINDOW_SIZE == 16

Str(chars) == [null |-> FALSE, chars |-> chars]
NullStr == [null |-> TRUE, chars |-> <<>>]
strlen(str) == Len(str)
strcat(dst, src) == dst \o src

\* The characters of temp that update_history keeps when temp is longer
\* than n: those from offset strlen(temp) - n on.
window_from_start(temp, n) == SubSeq(temp, 1, n)

window_from_offset(temp, n) ==
    LET offset == strlen(temp) - n
    IN SubSeq(temp, offset + 1, strlen(temp))

\* update_history(history, new_text): the return value and the history
\* buffer afterwards.
update_history(hist, new_text, malloc_ok) ==
    IF new_text.null THEN [ret |-> -1, history |-> hist]
    ELSE IF ~malloc_ok THEN [ret |-> -1, history |-> hist]
    ELSE LET temp == IF strlen(hist) > 0
                     THEN strcat(strcat(hist, <<32>>), new_text.chars)
                     ELSE new_text.chars
         IN IF strlen(temp) > CONTEXT_WINDOW_SIZE
            THEN [ret |-> 0,
                  history |-> window_from_offset(temp, CONTEXT_WINDOW_SIZE)]
            ELSE [ret |-> 0, history |-> temp]

(***************************************************************************)
(* retrolm.c: the functions main's loop calls on its input buffer.         *)
(***************************************************************************)
NewlineChar == <<10>>
QuitCommand == <<113, 117, 105, 116>>
ExitCommand == <<101, 120, 105, 116>>

RECURSIVE first_newline(_, _)
first_newline(stream, i) ==
    IF i > Len(stream) THEN 0
    ELSE IF stream[i] = 10 THEN i ELSE first_newline(stream, i + 1)

\* fgets(input, size, stdin): NULL at end of file; otherwise it takes
\* characters up to and including the first newline, at most size - 1.
fgets(stream, size) ==
    IF Len(stream) = 0 THEN [eof |-> TRUE, buf |-> <<>>, rest |-> stream]
    ELSE LET nl == first_newline(stream, 1)
             upto == IF nl = 0 THEN Len(stream) ELSE nl
             n == IF upto > size - 1 THEN size - 1 ELSE upto
         IN [eof |-> FALSE, buf |-> SubSeq(stream, 1, n),
             rest |-> SubSeq(stream, n + 1, Len(stream))]

\* Lines 201-206: a trailing newline is cut off.
strip_newline(buf) ==
    IF Len(buf) > 0 /\ buf[Len(buf)] = 10 THEN SubSeq(buf, 1, Len(buf) - 1) ELSE buf

is_exit_command_prefix(buf) ==
    /\ Len(buf) >= 4
    /\ \/ SubSeq(buf, 1, 4) = QuitCommand
       \/ SubSeq(buf, 1, 4) = ExitCommand

is_exit_command(buf) == buf = QuitCommand \/ buf = ExitCommand

(***************************************************************************)
(* exceptions.c, sampling.c and the output stream                          *)
(***************************************************************************)
\* enum ErrorType: throw() ends the process with the kind's enum value.
ErrorCode(e) ==
    CASE e = "InvalidInput" -> 0
      [] e = "IndexError" -> 1
      [] e = "MemoryError" -> 2
      [] e = "FileError" -> 3
      [] e = "ValueError" -> 4

\* sample_from_logits returns an index below vocab_size; which one depends
\* on the logits and on rand().  The codes kept are those the stop rule and
\* the printable test tell apart.
SampleOutcomes(vocab_size) ==
    {tok \in {9, 10, 31, 32, 126, 127, 255} : tok < vocab_size}

printf_chars(o, chars) == [o EXCEPT !.buf = o.buf \o chars]
fflush(o) == [buf |-> <<>>, sink |-> o.sink \o o.buf]

(***************************************************************************)
(* chat.c: generate_interactive                                            *)
(***************************************************************************)
PromptBytes == {65, 200}
VocabSizes == {128, 256}
Prompts == UNION {[1..n -> PromptBytes] : n \in 0..MaxPrompt}

\* Variants of the definitions below, each changed the way a slip in
\* chat.c would change it.
stop_rule_newline_only(tok) == tok = 10
loop_guard_inclusive(i, budget) == i <= budget
decode_input_whole_sequence(toks, pos) == UIntMat(1, toks)
decode_cache_fresh(c) == attention_cache_new(2)

\* chat.c line 103
stop_rule(tok) == tok = 10 \/ tok >= 127
\* chat.c line 111
printable(tok) == tok >= 32 /\ tok <= 126
\* chat.c line 72
loop_guard(i, budget) == i < budget
\* chat.c line 74: the decode input is a 1 x 1 index tensor
decode_input(toks, pos) == UIntMat(1, <<toks[pos]>>)
\* chat.c line 84: the position handed to the decode forward pass
decode_position(pos) == U32(pos - 1)
\* chat.c line 84: every decode step is handed the session's one cache
decode_cache(c) == c

emit_without_flush(o, tok) ==
    IF printable(tok) THEN printf_chars(o, <<tok>>) ELSE o

\* chat.c lines 111-114
emit(o, tok) == IF printable(tok) THEN fflush(printf_chars(o, <<tok>>)) ELSE o

\* chat.c line 22: the number of words allocated for the token buffer
total_capacity(prompt_len, budget) == U32(prompt_len + budget + 1)
\* chat.c line 108 (and line 35): whether a store at tokens[pos] lies inside
\* the buffer allocated at line 25
store_in_buffer(pos, capacity) == pos < capacity

\* State on reaching line 43: the prompt converted to tokens, the cache new.
GenInit ==
    /\ pc = "prefill"
    /\ \E s \in 1..MaxSeq, v \in VocabSizes : model = transformer_new(s, 2, 2, v)
    /\ prompt \in Prompts
    /\ max_tokens \in (0..MaxTokens) \cup {UINT_MAX}
    /\ tokens = prompt
    /\ t = 0
    /\ cache = attention_cache_new(2)
    /\ next_token = -1
    /\ out = [buf |-> <<>>, sink |-> <<>>]
    /\ steps = 0
    /\ nsampled = 0
    /\ calls = <<>>
    /\ exit_code = -1
    /\ result = [null |-> TRUE, chars |-> <<>>]

Terminated == pc \in {"done", "exit", "crash"}

\* Lines 44-69: one forward pass over the whole prompt at position 0.
Prefill ==
    /\ pc = "prefill"
    /\ IF Len(prompt) > 0
       THEN LET input == UIntMat(1, tokens)
                fw == transformer_forward_cached(input, model, cache, 0)
            IN /\ calls' = Append(calls, [phase |-> "prefill", n |-> input.c,
                                          pos |-> 0, rows |-> Len(cache.K)])
               /\ cache' = fw.cache
               /\ IF fw.logits.ok
                  THEN /\ out' = fflush(printf_chars(out, prompt))
                       /\ pc' = "loop"
                       /\ exit_code' = exit_code
                  ELSE /\ out' = out
                       /\ pc' = "exit"
                       /\ exit_code' = ErrorCode(fw.logits.err)
       ELSE /\ pc' = "loop"
            /\ UNCHANGED <<calls, cache, out, exit_code>>
    /\ UNCHANGED <<tensor_vars, repl_vars, model, prompt, max_tokens, tokens, t, next_token, steps,
                   nsampled, result>>

\* alloc_mat_uint / alloc_mat_float inside mat_uint_new and the forward pass:
\* a failed malloc throws MemoryError.
OutOfMemory ==
    /\ \/ pc = "prefill" /\ Len(prompt) > 0
       \/ pc = "loop" /\ loop_guard(t, max_tokens)
    /\ pc' = "exit"
    /\ exit_code' = ErrorCode("MemoryError")
    /\ UNCHANGED <<tensor_vars, repl_vars, model, prompt, max_tokens, tokens, t, cache, next_token, out,
                   steps, nsampled, calls, result>>

\* Lines 72-90 with at least one token in the buffer.
DecodeForward ==
    /\ pc = "loop"
    /\ loop_guard(t, max_tokens)
    /\ Len(tokens) > 0
    /\ LET pos == Len(tokens)
           input == decode_input(tokens, pos)
           fw == transformer_forward_cached(input, model, decode_cache(cache),
                                            decode_position(pos))
       IN /\ calls' = Append(calls, [phase |-> "decode", n |-> input.c,
                                     pos |-> decode_position(pos),
                                     rows |-> Len(decode_cache(cache).K)])
          /\ cache' = fw.cache
          /\ IF fw.logits.ok
             THEN /\ steps' = steps + 1
                  /\ pc' = "sample"
                  /\ exit_code' = exit_code
             ELSE /\ steps' = steps
                  /\ pc' = "exit"
                  /\ exit_code' = ErrorCode(fw.logits.err)
    /\ UNCHANGED <<tensor_vars, repl_vars, model, prompt, max_tokens, tokens, t, next_token, out,
                   nsampled, result>>

\* Lines 72-90 with pos = 0: tokens[pos - 1] reads tokens[UINT_MAX], outside
\* the buffer.  The read either faults or yields an arbitrary word, which is
\* then fed to the forward pass at position UINT_MAX.
DecodeForwardEmpty ==
    /\ pc = "loop"
    /\ loop_guard(t, max_tokens)
    /\ Len(tokens) = 0
    /\ \/ /\ pc' = "crash"
          /\ exit_code' = 139
          /\ UNCHANGED <<calls, cache>>
       \/ \E g \in {0, 65, 300} :
            LET input == UIntMat(1, <<g>>)
                fw == transformer_forward_cached(input, model, cache,
                                                 decode_position(0))
            IN /\ calls' = Append(calls, [phase |-> "decode", n |-> 1,
                                          pos |-> decode_position(0),
                                          rows |-> Len(cache.K)])
               /\ cache' = fw.cache
               /\ ~fw.logits.ok
               /\ pc' = "exit"
               /\ exit_code' = ErrorCode(fw.logits.err)
    /\ UNCHANGED <<tensor_vars, repl_vars, model, prompt, max_tokens, tokens, t, next_token, out,
                   steps, nsampled, result>>

\* Line 72: the budget is used up.
LoopEnd ==
    /\ pc = "loop"
    /\ ~loop_guard(t, max_tokens)
    /\ pc' = "cleanup"
    /\ UNCHANGED <<tensor_vars, repl_vars, model, prompt, max_tokens, tokens, t, cache, next_token, out,
                   steps, nsampled, calls, exit_code, result>>

\* Lines 93-100.
Sample ==
    /\ pc = "sample"
    /\ next_token' \in SampleOutcomes(model.lm_head.weights.r)
    /\ nsampled' = nsampled + 1
    /\ pc' = "stop"
    /\ UNCHANGED <<tensor_vars, repl_vars, model, prompt, max_tokens, tokens, t, cache, out, steps,
                   calls, exit_code, result>>

\* Lines 102-108.  A store past the end of the token buffer lands in the
\* heap behind it and the loop goes on.
StopRule ==
    /\ pc = "stop"
    /\ IF stop_rule(next_token)
       THEN /\ pc' = "cleanup"
            /\ tokens' = tokens
       ELSE /\ pc' = "emit"
            /\ tokens' = Append(tokens, next_token)
    /\ UNCHANGED <<tensor_vars, repl_vars, model, prompt, max_tokens, t, cache, next_token, out, steps,
                   nsampled, calls, exit_code, result>>

\* Lines 110-115 and the loop increment.
Emit ==
    /\ pc = "emit"
    /\ out' = emit(out, next_token)
    /\ t' = t + 1
    /\ pc' = "loop"
    /\ UNCHANGED <<tensor_vars, repl_vars, model, prompt, max_tokens, tokens, cache, next_token, steps,
                   nsampled, calls, exit_code, result>>

\* Whether some token was stored past the end of the buffer.
buffer_overrun(toks, capacity) ==
    \E i \in 1..Len(toks) : ~store_in_buffer(i - 1, capacity)

\* Lines 117-138: the cache is released and the token buffer is converted.
\* After stores past the end of the buffer the heap is damaged: the calls of
\* malloc and free either go through or abort the process.
Cleanup ==
    /\ pc = "cleanup"
    /\ cache' = [K |-> <<>>, V |-> <<>>]
    /\ \/ /\ result' = [null |-> FALSE,
                        chars |-> [i \in 1..Len(tokens) |->
                                     IF printable(tokens[i]) THEN tokens[i] ELSE 32]]
          /\ pc' = "done"
          /\ exit_code' = exit_code
       \/ /\ result' = [null |-> TRUE, chars |-> <<>>]
          /\ pc' = "done"
          /\ exit_code' = exit_code
       \/ /\ buffer_overrun(tokens, total_capacity(Len(prompt), max_tokens))
          /\ result' = result
          /\ pc' = "crash"
          /\ exit_code' = 134
    /\ UNCHANGED <<tensor_vars, repl_vars, model, prompt, max_tokens, tokens, t, next_token, out, steps,
                   nsampled, calls>>

TensorIdle == tcall = [op |-> "none"]

\* No chat session is running.
ReplIdle ==
    /\ history = <<>>
    /\ hcall = [op |-> "none"]
    /\ stdin = <<>>
    /\ typed = <<>>
    /\ input_buf = <<>>
    /\ rpc = "idle"
    /\ events = <<>>
    /\ status = -1

Next ==
    \/ Prefill
    \/ OutOfMemory
    \/ DecodeForward
    \/ DecodeForwardEmpty
    \/ LoopEnd
    \/ Sample
    \/ StopRule
    \/ Emit
    \/ Cleanup

Init == GenInit /\ TensorIdle /\ ReplIdle
Spec == Init /\ [][Next]_vars
\* The loop runs to completion: nothing in the single-threaded program
\* suspends it.
FairSpec == Spec /\ WF_vars(Next)

(***************************************************************************)
(* The tensor layer on its own: one call of the forward pass or of an      *)
(* element-wise operation on a model and operands of every small shape.    *)
(***************************************************************************)
Dims == 1..MaxDim
TokenIds == {0, 2}
IndexRows == UNION {[1..n -> TokenIds] : n \in Dims}
Positions == (0..MaxDim) \cup {UINT_MAX}
PrimedCaches ==
    {attention_cache_new(1),
     attention_cache_append(attention_cache_new(1), UIntMat(1, <<0>>), 0)}

ModelOf(cfg) == transformer_new(cfg.seq_len, cfg.embed, cfg.ff, cfg.vocab)

TensorInit ==
    \E s \in Dims, e \in Dims, f \in Dims, v \in Dims :
        tcall = [op |-> "transformer_new",
                 cfg |-> [seq_len |-> s, embed |-> e, ff |-> f, vocab |-> v]]

GenIdle ==
    /\ pc = "idle"
    /\ model = [none |-> TRUE]
    /\ prompt = <<>>
    /\ max_tokens = 0
    /\ tokens = <<>>
    /\ t = 0
    /\ cache = attention_cache_new(1)
    /\ next_token = -1
    /\ out = [buf |-> <<>>, sink |-> <<>>]
    /\ steps = 0
    /\ nsampled = 0
    /\ calls = <<>>
    /\ exit_code = -1
    /\ result = [null |-> TRUE, chars |-> <<>>]

\* transformer_forward on an index tensor of r rows, with and without cache.
ForwardCall ==
    /\ tcall.op = "transformer_new"
    /\ \E r \in 1..2, data \in IndexRows, pos \in Positions, c \in PrimedCaches :
         LET x == [r |-> r, c |-> Len(data), data |-> data]
             p == ModelOf(tcall.cfg)
             fw == transformer_forward_cached(x, p, c, pos)
         IN tcall' = [op |-> "forward", cfg |-> tcall.cfg, x |-> x, pos |-> pos,
                      before |-> c, after |-> fw.cache, res |-> fw.logits,
                      plain |-> transformer_forward(x, p),
                      residual |-> residual_operands(
                                      mat_new(Len(data), tcall.cfg.embed), p),
                      heap |-> heap_after(transformer_forward_allocations,
                                          transformer_forward_frees),
                      attention_heap |-> heap_after(attention_forward_allocations,
                                                    attention_forward_frees)]
    /\ UNCHANGED <<gen_vars, repl_vars>>

\* mat_add, mat_sub or mat_div on operands of shapes [r1, c1] and [r2, c2].
ElementwiseCall ==
    /\ tcall.op = "transformer_new"
    /\ \E op \in {"mat_add", "mat_sub", "mat_div"},
          r1 \in Dims, c1 \in Dims, r2 \in Dims, c2 \in Dims :
         LET m1 == mat_new(r1, c1)
             m2 == mat_new(r2, c2)
         IN tcall' = [op |-> op, cfg |-> tcall.cfg, m1 |-> m1, m2 |-> m2,
                      res |-> CASE op = "mat_add" -> mat_add(m1, m2)
                                [] op = "mat_sub" -> mat_sub(m1, m2)
                                [] op = "mat_div" -> mat_div(m1, m2)]
    /\ UNCHANGED <<gen_vars, repl_vars>>

\* softmax on a matrix of shape [r, c].
SoftmaxCall ==
    /\ tcall.op = "transformer_new"
    /\ \E r \in Dims, c \in Dims :
         LET m == mat_new(r, c)
         IN tcall' = [op |-> "softmax", cfg |-> tcall.cfg, m |-> m,
                      res |-> softmax(m)]
    /\ UNCHANGED <<gen_vars, repl_vars>>

\* The causal mask of an attention forward pass on n new rows with t rows
\* already cached; without cached rows it is the mask of attention_forward.
AttentionCall ==
    /\ tcall.op = "transformer_new"
    /\ \E t0 \in 0..MaxDim, n \in Dims :
         tcall' = [op |-> "attention", cfg |-> tcall.cfg, t |-> t0, n |-> n,
                   masked |-> IF t0 = 0
                              THEN attention_masked(mat_new(n, tcall.cfg.embed))
                              ELSE attention_masked_cached(t0, n)]
    /\ UNCHANGED <<gen_vars, repl_vars>>

\* embeddings_forward on a 1 x k index vector and a [vocab, embed] table.
EmbeddingCall ==
    /\ tcall.op = "transformer_new"
    /\ \E data \in IndexRows :
         LET indices == UIntMat(1, data)
             p == embeddings_new(tcall.cfg.vocab, tcall.cfg.embed)
         IN tcall' = [op |-> "embeddings_forward", cfg |-> tcall.cfg,
                      indices |-> indices,
                      res |-> embeddings_forward(indices, p)]
    /\ UNCHANGED <<gen_vars, repl_vars>>

\* mat_at on a matrix of shape [seq_len, embed] (the positional table).
MatAtCall ==
    /\ tcall.op = "transformer_new"
    /\ \E i \in 0..MaxDim, j \in 0..MaxDim :
         LET m == mat_new(tcall.cfg.seq_len, tcall.cfg.embed)
         IN tcall' = [op |-> "mat_at", cfg |-> tcall.cfg, m |-> m,
                      i |-> i, j |-> j, res |-> mat_at(m, i, j)]
    /\ UNCHANGED <<gen_vars, repl_vars>>

TensorNext ==
    \/ ForwardCall
    \/ ElementwiseCall
    \/ SoftmaxCall
    \/ AttentionCall
    \/ EmbeddingCall
    \/ MatAtCall

TensorStart == TensorInit /\ GenIdle /\ ReplIdle
TensorSpec == TensorStart /\ [][TensorNext]_vars

(***************************************************************************)
(* The kernels of matrix_ops.c on raw arrays.  An array is a function from *)
(* offsets 0..n-1 to values; an access at an offset outside the array is   *)
(* recorded in oob.  A value of _matmul is the bag of the products that    *)
(* were added into it, a product being the pair of offsets it multiplies.  *)
(***************************************************************************)
BLOCK == 8

\* malloc of r * c floats, then memset to zero.
alloc_mat_float(r, c) == [k \in 0..(r * c - 1) |-> 0]

block_limit_whole_block(s, n) == U32(s + BLOCK)
\* i_max and j_max: the end of the block that starts at s, clipped to n.
block_limit(s, n) == IF U32(s + BLOCK) < n THEN U32(s + BLOCK) ELSE n

\* res[j*r + i] = m[i*c + j]
transpose_store(st) ==
    LET dst == U32(st.j * st.r + st.i)
        src == U32(st.i * st.c + st.j)
    IN IF dst \in DOMAIN st.res /\ src \in DOMAIN st.m
       THEN [st EXCEPT !.res[dst] = st.m[src]]
       ELSE [st EXCEPT !.oob = @ \cup {[src |-> src, dst |-> dst]}]

\* for (j = jj; j < j_max; ++j)
RECURSIVE transpose_j(_, _)
transpose_j(st, j_max) ==
    IF st.j < j_max
    THEN transpose_j([transpose_store(st) EXCEPT !.j = @ + 1], j_max)
    ELSE st

\* for (i = ii; i < i_max; ++i)
RECURSIVE transpose_i(_, _, _, _)
transpose_i(st, i_max, jj, j_max) ==
    IF st.i < i_max
    THEN transpose_i([transpose_j([st EXCEPT !.j = jj], j_max)
                         EXCEPT !.i = @ + 1],
                     i_max, jj, j_max)
    ELSE st

\* for (jj = 0; jj < c; jj += BLOCK)
RECURSIVE transpose_jj(_, _, _, _)
transpose_jj(st, ii, i_max, jj) ==
    IF jj < st.c
    THEN transpose_jj(transpose_i([st EXCEPT !.i = ii], i_max, jj,
                                  block_limit(jj, st.c)),
                      ii, i_max, U32(jj + BLOCK))
    ELSE st

\* for (ii = 0; ii < r; ii += BLOCK)
RECURSIVE transpose_ii(_, _)
transpose_ii(st, ii) ==
    IF ii < st.r
    THEN transpose_ii(transpose_jj(st, ii, block_limit(ii, st.r), 0),
                      U32(ii + BLOCK))
    ELSE st

_mattranspose(m, r, c, res) ==
    transpose_ii([m |-> m, r |-> r, c |-> c, res |-> res, oob |-> {},
                  i |-> 0, j |-> 0], 0)

\* mat_transpose on a matrix that carries its elements.
mat_transpose_data(m) ==
    LET done == _mattranspose(m.data, m.r, m.c, alloc_mat_float(m.c, m.r))
    IN [r |-> m.c, c |-> m.r, data |-> done.res, oob |-> done.oob]

\* The product a[x] * b[y], and the reads outside m1 and m2 among xs, ys.
product(x, y) == SetToBag({<<x, y>>})
reads_outside(r1, c1, c2, xs, ys) ==
    {[array |-> "m1", offset |-> x] : x \in {x \in xs : x >= r1 * c1}}
        \cup {[array |-> "m2", offset |-> y] : y \in {y \in ys : y >= c1 * c2}}

unrolled_guard_inclusive(k, c1) == k + 3 <= c1
\* k + 3 < c1
unrolled_guard(k, c1) == U32(k + 3) < c1

\* main unrolled loop (4x)
RECURSIVE matmul_unrolled(_, _, _, _)
matmul_unrolled(s, r1, c1, c2) ==
    IF unrolled_guard(s.k, c1)
    THEN matmul_unrolled(
           [k |-> U32(s.k + 4), a |-> s.a + 4, b |-> s.b + 4 * c2,
            sum0 |-> s.sum0 (+) product(s.a, s.b),
            sum1 |-> s.sum1 (+) product(s.a + 1, s.b + c2),
            sum2 |-> s.sum2 (+) product(s.a + 2, s.b + 2 * c2),
            sum3 |-> s.sum3 (+) product(s.a + 3, s.b + 3 * c2),
            oob |-> s.oob \cup
                    reads_outside(r1, c1, c2,
                                  {s.a, s.a + 1, s.a + 2, s.a + 3},
                                  {s.b, s.b + c2, s.b + 2 * c2,
                                   s.b + 3 * c2})],
           r1, c1, c2)
    ELSE s

\* cleanup
RECURSIVE matmul_cleanup(_, _, _, _)
matmul_cleanup(s, r1, c1, c2) ==
    IF s.k < c1
    THEN matmul_cleanup(
           [k |-> s.k + 1, a |-> s.a + 1, b |-> s.b + c2,
            sum |-> s.sum (+) product(s.a, s.b),
            oob |-> s.oob \cup reads_outside(r1, c1, c2, {s.a}, {s.b})],
           r1, c1, c2)
    ELSE s

\* The body of the j loop: the value stored in res_row[j] for row i.
matmul_cell(i, j, r1, c1, c2) ==
    LET main == matmul_unrolled(
                    [k |-> 0, a |-> i * c1, b |-> j,
                     sum0 |-> EmptyBag, sum1 |-> EmptyBag,
                     sum2 |-> EmptyBag, sum3 |-> EmptyBag, oob |-> {}],
                    r1, c1, c2)
    IN matmul_cleanup(
           [k |-> main.k, a |-> main.a, b |-> main.b,
            sum |-> main.sum0 (+) main.sum1 (+) main.sum2 (+) main.sum3,
            oob |-> main.oob],
           r1, c1, c2)

matmul_store(st, i, j, cell) ==
    LET dst == i * st.c2 + j
    IN IF dst \in DOMAIN st.res
       THEN [st EXCEPT !.res[dst] = cell.sum, !.oob = @ \cup cell.oob]
       ELSE [st EXCEPT !.oob = @ \cup cell.oob
                                  \cup {[array |-> "res", offset |-> dst]}]

RECURSIVE matmul_j(_, _, _)
matmul_j(st, i, j) ==
    IF j < st.c2
    THEN matmul_j(matmul_store(st, i, j,
                               matmul_cell(i, j, st.r1, st.c1, st.c2)),
                  i, j + 1)
    ELSE st

RECURSIVE matmul_i(_, _)
matmul_i(st, i) ==
    IF i < st.r1 THEN matmul_i(matmul_j(st, i, 0), i + 1) ELSE st

_matmul(res, r1, c1, c2) ==
    matmul_i([res |-> res, r1 |-> r1, c1 |-> c1, c2 |-> c2, oob |-> {}], 0)

(***************************************************************************)
(* Calls of the kernels (tests/test_matrix_ops.c, tests/test_matrix.c).    *)
(***************************************************************************)
KernelDims == 1..MaxKernel
OuterDims == 1..MaxOuter

KernelInit ==
    \E r \in KernelDims, c \in KernelDims, c2 \in OuterDims :
        tcall = [op |-> "dims", r |-> r, c |-> c, c2 |-> c2]

\* mat_transpose on m of shape [r, c] with cells 1, 2, ..., then on its
\* result.
TransposeCall ==
    /\ tcall.op = "dims"
    /\ LET m == [r |-> tcall.r, c |-> tcall.c,
                 data |-> [k \in 0..(tcall.r * tcall.c - 1) |-> k + 1]]
           res == mat_transpose_data(m)
       IN tcall' = [op |-> "mat_transpose", m |-> m, res |-> res,
                    back |-> mat_transpose_data(res)]
    /\ UNCHANGED <<gen_vars, repl_vars>>

\* _matmul on m1 of shape [r1, c1] and m2 of shape [c1, c2].
MatmulCall ==
    /\ tcall.op = "dims"
    /\ \E r1 \in OuterDims :
         LET res0 == [k \in 0..(r1 * tcall.c2 - 1) |-> EmptyBag]
             done == _matmul(res0, r1, tcall.c, tcall.c2)
         IN tcall' = [op |-> "_matmul", r1 |-> r1, c1 |-> tcall.c,
                      c2 |-> tcall.c2, res |-> done.res, oob |-> done.oob]
    /\ UNCHANGED <<gen_vars, repl_vars>>

KernelNext ==
    \/ TransposeCall
    \/ MatmulCall

KernelStart == KernelInit /\ GenIdle /\ ReplIdle
KernelSpec == KernelStart /\ [][KernelNext]_vars

(***************************************************************************)
(* Calls of sample_from_logits (tests/test_sampling.c).                    *)
(***************************************************************************)
LogitValues == {-100, 0, 2, 4}
LogitRows == UNION {[1..n -> LogitValues] : n \in 1..MaxVocab}
Temperatures == {-2, 0, 1, 2}

SamplingInit == tcall = [op |-> "srand"]

SampleCall ==
    /\ tcall.op = "srand"
    /\ \E logits \in LogitRows, temperature \in Temperatures,
          rand \in 0..RAND_MAX, malloc_ok \in BOOLEAN :
         tcall' = [op |-> "sample_from_logits", logits |-> logits,
                   vocab_size |-> Len(logits), temperature |-> temperature,
                   rand |-> rand, malloc_ok |-> malloc_ok,
                   res |-> sample_from_logits(logits, Len(logits), temperature,
                                              rand, malloc_ok),
                   at_one |-> sample_from_logits(logits, Len(logits), 1,
                                                 rand, malloc_ok)]
    /\ UNCHANGED <<gen_vars, repl_vars>>

SamplingNext == SampleCall

SamplingStart == SamplingInit /\ GenIdle /\ ReplIdle
SamplingSpec == SamplingStart /\ [][SamplingNext]_vars

(***************************************************************************)
(* Sequences of update_history calls on an initially empty history.        *)
(***************************************************************************)
Letters(first, n) == [i \in 1..n |-> first + i - 1]
HistoryTexts ==
    {NullStr, Str(<<>>), Str(<<97>>), Str(Letters(48, 10)), Str(Letters(65, 17))}

HistoryInit ==
    /\ history = <<>>
    /\ hcall = [op |-> "none"]
    /\ stdin = <<>>
    /\ typed = <<>>
    /\ input_buf = <<>>
    /\ rpc = "history"
    /\ events = <<>>
    /\ status = -1

UpdateHistoryCall ==
    /\ rpc = "history"
    /\ \E new_text \in HistoryTexts, malloc_ok \in BOOLEAN :
         LET r == update_history(history, new_text, malloc_ok)
         IN /\ history' = r.history
            /\ hcall' = [op |-> "update_history", prev |-> history,
                         new_text |-> new_text, ret |-> r.ret]
    /\ UNCHANGED <<gen_vars, tensor_vars, stdin, typed, input_buf, rpc, events, status>>

HistoryNext == UpdateHistoryCall

HistoryStart == HistoryInit /\ GenIdle /\ TensorIdle
HistorySpec == HistoryStart /\ [][HistoryNext]_vars

(***************************************************************************)
(* main: the chat loop of retrolm.c.                                       *)
(***************************************************************************)
TypedLines ==
    {<<>>, QuitCommand, ExitCommand, <<97>>, <<104, 105>>,
     <<113, 117, 105, 116, 115>>,
     <<104, 101, 108, 108, 111>> \o QuitCommand}
TypedSessions == UNION {[1..n -> TypedLines] : n \in 0..MaxLines}

RECURSIVE as_stream(_)
as_stream(lines) ==
    IF lines = <<>> THEN <<>>
    ELSE Head(lines) \o NewlineChar \o as_stream(Tail(lines))

GeneratedTexts == {<<>>, <<111, 107>>}

\* What a call generate_interactive(&model, history, 100, ...) can do:
\* return the prompt followed by the generated text, return NULL, or end
\* the process through throw; with an empty prompt the first decode step
\* reads outside the token buffer.
GenerateOutcomes(hist) ==
    IF hist = <<>>
    THEN {[kind |-> "exit", status |-> 139, chars |-> <<>>],
          [kind |-> "exit", status |-> ErrorCode("InvalidInput"), chars |-> <<>>]}
    ELSE {[kind |-> "response", status |-> -1, chars |-> hist \o g] :
             g \in GeneratedTexts}
         \cup {[kind |-> "null", status |-> -1, chars |-> <<>>],
               [kind |-> "exit", status |-> ErrorCode("MemoryError"), chars |-> <<>>],
               [kind |-> "exit", status |-> ErrorCode("InvalidInput"), chars |-> <<>>]}

ReplInit ==
    /\ history = <<>>
    /\ hcall = [op |-> "none"]
    /\ typed \in TypedSessions
    /\ stdin = as_stream(typed)
    /\ input_buf = <<>>
    /\ rpc = "read"
    /\ events = <<>>
    /\ status = -1

Event(ev, text) == [ev |-> ev, text |-> text]

\* Lines 197-206: fgets and the removal of the newline.
ReplRead ==
    /\ rpc = "read"
    /\ LET r == fgets(stdin, MAX_INPUT)
       IN IF r.eof
          THEN /\ rpc' = "ended"
               /\ status' = 0
               /\ UNCHANGED <<stdin, input_buf>>
          ELSE /\ input_buf' = strip_newline(r.buf)
               /\ stdin' = r.rest
               /\ rpc' = "command"
               /\ status' = status
    /\ UNCHANGED <<gen_vars, tensor_vars, history, hcall, typed, events>>

\* Lines 208-217: the exit commands and the empty input.
ReplCommand ==
    /\ rpc = "command"
    /\ IF is_exit_command(input_buf)
       THEN /\ rpc' = "ended"
            /\ status' = 0
            /\ events' = Append(events, Event("quit", <<>>))
       ELSE /\ rpc' = IF strlen(input_buf) = 0 THEN "read" ELSE "update"
            /\ UNCHANGED <<status, events>>
    /\ UNCHANGED <<gen_vars, tensor_vars, history, hcall, stdin, typed, input_buf>>

\* Lines 219-222: the user's text goes into the history.
ReplUpdateHistory ==
    /\ rpc = "update"
    /\ \E malloc_ok \in BOOLEAN :
         LET r == update_history(history, Str(input_buf), malloc_ok)
         IN /\ history' = r.history
            /\ hcall' = [op |-> "update_history", prev |-> history,
                         new_text |-> Str(input_buf), ret |-> r.ret]
    /\ events' = Append(events, Event("update_user", input_buf))
    /\ rpc' = "generate"
    /\ UNCHANGED <<gen_vars, tensor_vars, stdin, typed, input_buf, status>>

\* Lines 224-234: the generation call.
ReplGenerate ==
    /\ rpc = "generate"
    /\ events' = Append(events, Event("generate", <<>>))
    /\ \E o \in GenerateOutcomes(history) :
         /\ hcall' = [op |-> "generate_interactive", outcome |-> o]
         /\ CASE o.kind = "response" -> rpc' = "respond" /\ status' = status
              [] o.kind = "null" -> rpc' = "ended" /\ status' = 1
              [] o.kind = "exit" -> rpc' = "ended" /\ status' = o.status
    /\ UNCHANGED <<gen_vars, tensor_vars, history, stdin, typed, input_buf>>

\* Lines 236-245: the response goes into the history.
ReplRespond ==
    /\ rpc = "respond"
    /\ LET response == hcall.outcome.chars
       IN IF strlen(response) > 0
          THEN \E malloc_ok \in BOOLEAN :
                 LET r == update_history(history, Str(response), malloc_ok)
                 IN /\ history' = r.history
                    /\ hcall' = [op |-> "update_history", prev |-> history,
                                 new_text |-> Str(response), ret |-> r.ret]
                    /\ events' = Append(events, Event("update_bot", response))
          ELSE UNCHANGED <<history, hcall, events>>
    /\ rpc' = "read"
    /\ UNCHANGED <<gen_vars, tensor_vars, stdin, typed, input_buf, status>>

ReplNext ==
    \/ ReplRead
    \/ ReplCommand
    \/ ReplUpdateHistory
    \/ ReplGenerate
    \/ ReplRespond

ReplStart == ReplInit /\ GenIdle /\ TensorIdle
ReplSpec == ReplStart /\ [][ReplNext]_vars

(***************************************************************************)
(* Properties of the generation loop (checked under Spec and FairSpec).    *)
(***************************************************************************)
PromptLen == Len(prompt)
Generated == SubSeq(tokens, PromptLen + 1, Len(tokens))
IsPrefix(a, b) == Len(a) <= Len(b) /\ SubSeq(b, 1, Len(a)) = a
InRange32To126(c) == c >= 32 /\ c <= 126
AfterPrefill == pc \in {"loop", "sample", "stop", "emit", "cleanup"}

\* C1: after the prefill of a prompt of length p >= 1 and k executed decode
\* steps, K and V both hold p + k rows; this holds after every decode step,
\* the one whose sampled token stops the loop included.
C1_CacheRows ==
    (PromptLen >= 1 /\ AfterPrefill)
        => (Len(cache.K) = PromptLen + steps /\ Len(cache.V) = PromptLen + steps)

\* A run that stopped on a sampled stop token after two decode steps.
C1_Witness ==
    /\ pc = "cleanup"
    /\ PromptLen = 2
    /\ steps = 2
    /\ next_token = 10
    /\ Len(cache.K) = 4

\* C2: the cache starts with 0 rows; a forward call on n rows takes K and V
\* from t rows to t + n rows and keeps the first t rows as they were; a
\* failed call leaves the cache alone; only releasing the cache lowers the
\* row count.
C2_CacheAppendOnly ==
    /\ Len(cache.K) = 0 /\ Len(cache.V) = 0
    /\ [][ pc # "cleanup" =>
             /\ IsPrefix(cache.K, cache'.K)
             /\ IsPrefix(cache.V, cache'.V)
             /\ Len(cache'.K) = Len(cache'.V)
             /\ IF calls' # calls /\ pc' # "exit"
                THEN Len(cache'.K) = Len(cache.K) + calls'[Len(calls')].n
                ELSE cache' = cache ]_vars

\* A decode step has extended a cache that already held three rows.
C2_Witness ==
    /\ pc = "sample"
    /\ Len(calls) = 3
    /\ Len(cache.K) = 4
    /\ cache.K[1] = <<"k", 65, 0>>

\* C3: every decode call of transformer_forward is given the current cache
\* length as its position, and the prefill call position 0.
C3_DecodePositionIsCacheLength ==
    \A i \in 1..Len(calls) :
        IF calls[i].phase = "prefill"
        THEN calls[i].pos = 0
        ELSE calls[i].pos = calls[i].rows

\* C4: the loop ends at the first sampled token that is 10 or >= 127; that
\* token is neither appended nor emitted and nothing is run or sampled after
\* it; any other sampled token is appended and the loop goes on to its next
\* iteration.
C4_StopRule ==
    /\ [][ pc = "stop" =>
             IF next_token = 10 \/ next_token >= 127
             THEN pc' = "cleanup" /\ tokens' = tokens /\ out' = out
             ELSE pc' = "emit" /\ tokens' = Append(tokens, next_token) ]_vars
    /\ [][ pc = "emit" => pc' = "loop" ]_vars
    /\ [][ (pc \in {"cleanup", "done"}) =>
             (calls' = calls /\ nsampled' = nsampled /\ steps' = steps
              /\ tokens' = tokens /\ out' = out) ]_vars

\* The loop was ended by the token 127 sampled in the second decode step,
\* with budget left.
C4_Witness ==
    /\ pc = "done"
    /\ next_token = 127
    /\ nsampled = 2
    /\ Len(Generated) = 1
    /\ max_tokens = 3
    /\ calls[Len(calls)].phase = "decode"
    /\ Len(calls) = 3

\* C5: at most max_tokens decode forward passes run, at most max_tokens
\* tokens are appended, and generate_interactive always comes to an end.
C5_BudgetAndTermination ==
    /\ [](steps <= max_tokens /\ Len(tokens) <= PromptLen + max_tokens
          /\ nsampled <= max_tokens)
    /\ <>Terminated

\* The whole budget was used and no stop token was ever sampled.
C5_Witness ==
    /\ pc = "done"
    /\ max_tokens = 3
    /\ steps = 3
    /\ Len(Generated) = 3

\* C6: whenever a decode step may begin, every accepted token with a code in
\* 32..126 is on the sink, flushed, in sampling order, after the echoed
\* prompt, and no other accepted token is; an accepted token is appended to
\* the sequence whatever its code.
C6_Streaming ==
    /\ [](pc \in {"loop", "cleanup", "done"} =>
            /\ out.buf = <<>>
            /\ out.sink = (prompt \o SelectSeq(Generated, InRange32To126)))
    /\ [][ pc = "emit" =>
             (tokens[Len(tokens)] = next_token
              /\ out'.buf = <<>>
              /\ out'.sink = out.sink \o (IF InRange32To126(next_token)
                                          THEN <<next_token>> ELSE <<>>)) ]_vars

\* Two printable tokens around a control code have been accepted.
C6_Witness ==
    /\ pc = "loop"
    /\ prompt = <<65>>
    /\ Generated = <<32, 9, 126>>
    /\ out.sink = <<65, 32, 126>>

(***************************************************************************)
(* Properties of the tensor layer (checked under TensorSpec).              *)
(***************************************************************************)
IsForward == tcall.op = "forward"
IsElementwise == tcall.op \in {"mat_add", "mat_sub", "mat_div"}
FwdN == tcall.x.c
FwdInVocab ==
    /\ FwdN <= tcall.cfg.vocab
    /\ \A i \in 1..FwdN : tcall.x.data[i] < tcall.cfg.vocab
FailedWith(m, e) == ~m.ok /\ m.err = e

\* C7: a forward call on n tokens from position pos fails with InvalidInput
\* whenever pos + n > max_seq_len, and the positional row selection is not
\* what fails when pos + n <= max_seq_len.
C7_PositionRange ==
    IsForward =>
        /\ (tcall.pos + FwdN > tcall.cfg.seq_len)
               => FailedWith(tcall.res, "InvalidInput")
        /\ (tcall.pos + FwdN <= tcall.cfg.seq_len)
               => tcall.res.at # "pos_embed"
        /\ (tcall.x.r = 1 /\ FwdInVocab /\ tcall.pos + FwdN > tcall.cfg.seq_len)
               => tcall.res.at = "pos_embed"
        /\ (FwdN > tcall.cfg.seq_len) => FailedWith(tcall.plain, "InvalidInput")
        /\ (FwdN <= tcall.cfg.seq_len) => tcall.plain.at # "pos_embed"

\* One token at the first position past the table is refused by the row
\* selection, everything before it having passed.
C7_Witness ==
    /\ IsForward
    /\ tcall.x.r = 1
    /\ FwdInVocab
    /\ FwdN = 1
    /\ tcall.pos = tcall.cfg.seq_len
    /\ tcall.pos = 3
    /\ tcall.res.at = "pos_embed"

\* C8: an index tensor of more than one row is refused with InvalidInput
\* before any embedding lookup and with the cache as it was; a single-row
\* tensor of any width passes this check.
C8_BatchCheck ==
    IsForward =>
        /\ (tcall.x.r > 1) =>
               /\ FailedWith(tcall.res, "InvalidInput")
               /\ tcall.res.at = "batch"
               /\ tcall.after = tcall.before
               /\ FailedWith(tcall.plain, "InvalidInput")
               /\ tcall.plain.at = "batch"
        /\ (tcall.x.r = 1) =>
               /\ tcall.res.at # "batch"
               /\ tcall.plain.at # "batch"

\* A two-row tensor whose tokens are outside the vocabulary, on a primed
\* cache: the batch check is what refuses it.
C8_Witness ==
    /\ IsForward
    /\ tcall.x.r = 2
    /\ tcall.x.data = <<2, 2>>
    /\ tcall.cfg.vocab = 1
    /\ Len(tcall.before.K) = 1
    /\ tcall.res.at = "batch"

\* C9: for every configuration with all sizes >= 1 and every 1 x n vector of
\* in-vocabulary tokens with n <= max_seq_len, transformer_forward returns
\* logits of shape [n, vocab] and raises no error.
C9_ForwardShape ==
    (IsForward /\ tcall.x.r = 1 /\ FwdN <= tcall.cfg.seq_len
       /\ \A i \in 1..FwdN : tcall.x.data[i] < tcall.cfg.vocab)
        => (tcall.plain.ok /\ tcall.plain.r = FwdN
            /\ tcall.plain.c = tcall.cfg.vocab)

\* C10: mat_add, mat_sub and mat_div on m1 of shape [r, c] succeed, with a
\* result of shape [r, c], exactly when m2 has shape [r, c], [1, c] or
\* [r, 1], and fail with InvalidInput otherwise.
C10_BroadcastShapes ==
    IsElementwise =>
        LET m1 == tcall.m1
            m2 == tcall.m2
            accepted == \/ (m2.r = m1.r /\ m2.c = m1.c)
                        \/ (m2.r = 1 /\ m2.c = m1.c)
                        \/ (m2.r = m1.r /\ m2.c = 1)
        IN IF accepted
           THEN tcall.res.ok /\ tcall.res.r = m1.r /\ tcall.res.c = m1.c
           ELSE FailedWith(tcall.res, "InvalidInput")

\* C11: softmax on any matrix of shape [r, c], the single-row inputs [1, c]
\* with c > 1 included, returns without error a matrix of shape [r, c].
C11_SoftmaxTotal ==
    (tcall.op = "softmax")
        => (tcall.res.ok /\ tcall.res.r = tcall.m.r /\ tcall.res.c = tcall.m.c)

IsSample == tcall.op = "sample_from_logits"

\* The cumulative probability through index i (0-based), as a numerator
\* over the denominator SampleSum, for the validated temperature.
SampleWeights ==
    probs_unnormalized(tcall.logits, tcall.vocab_size,
                       IF tcall.temperature <= 0 THEN 1 ELSE tcall.temperature)
SampleSum == probs_sum(SampleWeights, tcall.vocab_size)
SampleCum(i) == probs_sum(SampleWeights, i + 1)
\* cumsum_i > u, with u = rand / RAND_MAX.
CumAbove(i) == SampleCum(i) * RAND_MAX > tcall.rand * SampleSum
HitSet == {i \in 0..(tcall.vocab_size - 1) : CumAbove(i)}

\* C13: when a value u is drawn, sample_from_logits returns the smallest
\* index whose cumulative probability is strictly greater than u, and
\* vocab_size - 1 when there is none; the returned index is always below
\* vocab_size.
C13_FirstIndexAbove ==
    IsSample =>
        /\ tcall.res.result < tcall.vocab_size
        /\ tcall.res.drawn =>
              IF HitSet = {}
              THEN tcall.res.result = tcall.vocab_size - 1
              ELSE /\ tcall.res.result \in HitSet
                   /\ \A i \in HitSet : tcall.res.result <= i

\* A draw that lands exactly on the first cumulative value of a uniform row
\* of two: the walk passes index 0 and returns index 1.
C13_Witness ==
    /\ IsSample
    /\ tcall.logits = <<2, 2>>
    /\ tcall.temperature = 1
    /\ tcall.rand = 2
    /\ tcall.malloc_ok
    /\ tcall.res.result = 1

\* C14: each call of sample_from_logits calls the PRNG exactly once and the
\* value u it derives satisfies 0 <= u < 1.
C14_OneDrawBelowOne ==
    IsSample =>
        /\ tcall.res.prng = 1
        /\ 0 <= tcall.res.u[1]
        /\ tcall.res.u[1] < tcall.res.u[2]

\* C15: with a temperature <= 0 the call returns the token it returns with
\* temperature 1.0 from the same PRNG state, and raises no error.
C15_NonPositiveTemperature ==
    (IsSample /\ tcall.temperature <= 0) =>
        /\ tcall.res.result = tcall.at_one.result
        /\ tcall.res.err = "none"

\* Temperature -2 on a row where temperatures 1 and 2 pick different tokens
\* for the same draw.
C15_Witness ==
    /\ IsSample
    /\ tcall.temperature = -2
    /\ tcall.logits = <<0, 2>>
    /\ tcall.rand = 1
    /\ tcall.malloc_ok
    /\ tcall.res.result = 1

Joined(prev, text) == IF Len(prev) > 0 THEN prev \o <<32>> \o text ELSE text
LastChars(str, n) ==
    IF Len(str) <= n THEN str ELSE [i \in 1..n |-> str[Len(str) - n + i]]

\* C19: the history never holds more than CONTEXT_WINDOW_SIZE characters,
\* and after a successful update_history it is the last CONTEXT_WINDOW_SIZE
\* characters of the previous history, a space if that was non-empty, and
\* the new text, or that whole string when it fits the window.
C19_HistoryWindow ==
    /\ Len(history) <= CONTEXT_WINDOW_SIZE
    /\ (hcall.op = "update_history" /\ hcall.ret = 0) =>
           history = LastChars(Joined(hcall.prev, hcall.new_text.chars),
                               CONTEXT_WINDOW_SIZE)

\* A full window was extended by ten characters: the space and the new text
\* pushed out all but five of the old characters.
C19_Witness ==
    /\ hcall.op = "update_history"
    /\ hcall.ret = 0
    /\ Len(hcall.prev) = 16
    /\ hcall.new_text = Str(Letters(48, 10))
    /\ history = SubSeq(hcall.prev, 12, 16) \o <<32>> \o Letters(48, 10)

(***************************************************************************)
(* Exit status and returned string of a generation (checked under Spec).   *)
(***************************************************************************)
\* C17: a fatal error raised through throw ends the process with a status
\* other than 0, whichever of the five error kinds it is.
C17_FatalExitNonZero == (pc = "exit") => (exit_code # 0)

AsResultChars(toks) == [i \in 1..Len(toks) |-> IF printable(toks[i]) THEN toks[i] ELSE 32]

\* C20: the string generate_interactive returns holds the accepted sampled
\* tokens in order and not the prompt, and only characters 32..126.
C20_ResultIsGeneratedText ==
    (pc = "done" /\ ~result.null) =>
        /\ result.chars = AsResultChars(Generated)
        /\ \A i \in 1..Len(result.chars) : InRange32To126(result.chars[i])

(***************************************************************************)
(* Properties of main's loop (checked under ReplSpec).                     *)
(***************************************************************************)
RECURSIVE ExpectedEvents(_)
ExpectedEvents(lines) ==
    IF lines = <<>> THEN <<>>
    ELSE IF Head(lines) = QuitCommand \/ Head(lines) = ExitCommand
         THEN <<Event("quit", <<>>)>>
    ELSE IF Head(lines) = <<>> THEN ExpectedEvents(Tail(lines))
    ELSE <<Event("update_user", Head(lines)), Event("generate", <<>>)>>
             \o ExpectedEvents(Tail(lines))

IsUserEvent(e) == e.ev \in {"quit", "update_user", "generate"}
UserEvents == SelectSeq(events, IsUserEvent)

\* C18 as stated, for lines of any length: a line equal to quit or exit ends
\* the loop with status 0 and causes no history update and no generation; an
\* empty line causes neither; every other line causes one history update
\* with the user's text and then one generation call.
C18_ReplTurns ==
    /\ IsPrefix(UserEvents, ExpectedEvents(typed))
    /\ (Len(events) > 0 /\ events[Len(events)].ev = "quit")
           => (rpc = "ended" /\ status = 0)

LinesFitInput == \A i \in 1..Len(typed) : Len(typed[i]) <= MAX_INPUT - 1

\* C18, for lines that fit the input buffer (at most MAX_INPUT - 1
\* characters): quit and exit end the loop with status 0 without a history
\* update or a generation call, an empty line is skipped without either, and
\* every other line causes one history update with the user's text followed
\* by one generation call.
C18_ReplTurnsWithinCap == LinesFitInput => C18_ReplTurns

\* A session of a text line and then quit has ended: one update with the
\* text, one generation call, the bot's update, and the quit.
C18_Witness ==
    /\ typed = <<<<104, 105>>, QuitCommand>>
    /\ rpc = "ended"
    /\ status = 0
    /\ UserEvents = <<Event("update_user", <<104, 105>>), Event("generate", <<>>),
                      Event("quit", <<>>)>>
    /\ Len(events) = 4

(***************************************************************************)
(* Further properties of the tensor layer (checked under TensorSpec).      *)
(***************************************************************************)
\* C21: an embedding lookup of a 1 x k index vector in a [vocab, embed]
\* table returns a [k, embed] matrix whenever every index is < vocab, for
\* every k >= 1 (k > vocab with repeated indices included), and fails with
\* InvalidInput exactly when some index is >= vocab.
C21_EmbeddingLookup ==
    (tcall.op = "embeddings_forward") =>
        IF \A i \in 1..tcall.indices.c : tcall.indices.data[i] < tcall.cfg.vocab
        THEN /\ tcall.res.ok
             /\ tcall.res.r = tcall.indices.c
             /\ tcall.res.c = tcall.cfg.embed
        ELSE FailedWith(tcall.res, "InvalidInput")

\* C22: mat_at(m, i, j) fails with IndexError whenever i >= m.r or
\* j >= m.c, and otherwise yields the element at offset i * m.c + j.
C22_MatAtBounds ==
    (tcall.op = "mat_at") =>
        IF tcall.i >= tcall.m.r \/ tcall.j >= tcall.m.c
        THEN tcall.res.err = "IndexError"
        ELSE /\ tcall.res.err = "none"
             /\ tcall.res.offset = tcall.i * tcall.m.c + tcall.j

\* C23: the feed-forward residual adds the second projection's output, of
\* shape [n, embed], to the tensor that entered the feed-forward block, the
\* attention output of shape [n, embed], not to the first projection's
\* [n, ff] output.
C23_ResidualOnAttentionOutput ==
    (IsForward /\ tcall.x.r = 1) =>
        /\ tcall.residual.right.tensor = "W2_output"
        /\ tcall.residual.right.m.c = tcall.cfg.embed
        /\ tcall.residual.left.tensor = "attention_output"
        /\ tcall.residual.left.m.r = FwdN
        /\ tcall.residual.left.m.c = tcall.cfg.embed

\* C24: when transformer_forward returns, every tensor it allocated has been
\* released exactly once, the returned logits excepted: nothing is leaked
\* and nothing is freed twice, in transformer_forward and in
\* attention_forward.
C24_NoLeakNoDoubleFree ==
    (IsForward /\ tcall.plain.ok) =>
        /\ tcall.heap.live = {"logits"}
        /\ tcall.heap.twice = {}
        /\ tcall.attention_heap.live = {"attention_result"}
        /\ tcall.attention_heap.twice = {}

IsTranspose == tcall.op = "mat_transpose"
IsMatmul == tcall.op = "_matmul"

\* C25: mat_transpose of a matrix of shape [r, c], r and c at least 1 and
\* not necessarily multiples of the block size, is a [c, r] matrix with
\* res[j, i] = m[i, j] for all i and j, every access stays inside the
\* arrays, and transposing the result again gives the original matrix.
C25_TransposeInvolution ==
    IsTranspose =>
        /\ tcall.res.r = tcall.m.c
        /\ tcall.res.c = tcall.m.r
        /\ tcall.res.oob = {}
        /\ \A i \in 0..(tcall.m.r - 1), j \in 0..(tcall.m.c - 1) :
               tcall.res.data[j * tcall.m.r + i] =
                   tcall.m.data[i * tcall.m.c + j]
        /\ tcall.back.oob = {}
        /\ tcall.back.r = tcall.m.r
        /\ tcall.back.c = tcall.m.c
        /\ tcall.back.data = tcall.m.data

C25_Witness ==
    /\ IsTranspose
    /\ tcall.m.r = 9
    /\ tcall.m.c = 3
    /\ tcall.res.data[2 * 9 + 8] = 8 * 3 + 2 + 1
    /\ tcall.back.data = tcall.m.data

\* The value of res[i, j] computed by a naive triple loop.
NaiveCell(i, j, c1, c2) ==
    SetToBag({<<i * c1 + k, k * c2 + j>> : k \in 0..(c1 - 1)})

\* C26: for all r1, c1, c2 at least 1, c1 not necessarily a multiple of 4,
\* _matmul stores in every res[i, j] the sum over k in 0..c1-1 of
\* m1[i, k] * m2[k, j], each k counted once, as the naive triple loop
\* does, and accesses no element outside the three arrays.
C26_MatmulUnrolled ==
    IsMatmul =>
        /\ tcall.oob = {}
        /\ \A i \in 0..(tcall.r1 - 1), j \in 0..(tcall.c2 - 1) :
               tcall.res[i * tcall.c2 + j] =
                   NaiveCell(i, j, tcall.c1, tcall.c2)

C26_Witness ==
    /\ IsMatmul
    /\ tcall.r1 = 2
    /\ tcall.c1 = 7
    /\ tcall.c2 = 2
    /\ tcall.oob = {}
    /\ BagCardinality(tcall.res[3]) = 7

\* C27: whenever a decode step is about to run, the token it reads,
\* tokens[pos - 1], lies inside the part of the buffer that has been
\* written, [0, pos); in particular with an empty prompt and a budget of at
\* least one token.
C27_LastTokenReadInBounds ==
    (pc = "loop" /\ loop_guard(t, max_tokens)) =>
        decode_position(Len(tokens)) < Len(tokens)

\* The token positions that a call submits to transformer_forward.
SubmittedBy(call) == call.pos..(call.pos + call.n - 1)

\* C28: within one session no token position is submitted to
\* transformer_forward twice: the prefill submits 0..p-1 and every decode
\* step submits a position that no earlier call has submitted.
C28_PositionsSubmittedOnce ==
    /\ \A k \in 1..Len(calls) :
          calls[k].phase = "prefill" =>
              (k = 1 /\ calls[k].pos = 0 /\ calls[k].n = Len(prompt))
    /\ \A k \in 1..Len(calls), l \in 1..Len(calls) :
          k < l => SubmittedBy(calls[k]) \cap SubmittedBy(calls[l]) = {}

\* C29: when the prompt fits the positional table, no decode step calls the
\* transformer at a position at or beyond max_seq_len.  (Stated for the
\* non-empty prompts; the empty prompt is the case of C27.)
C29_DecodeWithinSeqLen ==
    (1 <= Len(prompt) /\ Len(prompt) <= model.pos_embed.r) =>
        \A k \in 1..Len(calls) :
            calls[k].phase = "decode" => calls[k].pos < model.pos_embed.r

\* C30: every token in the buffer was stored at an index below
\* total_capacity = prompt_len + max_tokens + 1, as the code computes it in
\* unsigned arithmetic, for every budget up to UINT_MAX.
C30_WritesWithinCapacity ==
    \A i \in 1..Len(tokens) :
        store_in_buffer(i - 1, total_capacity(Len(prompt), max_tokens))

====
